---- MODULE Spec2Model ----
(***************************************************************************)
(* State-machine model of the missile-defense game in                      *)
(* src/src/components/Game.tsx (component TinaNovaDefense): the refs that  *)
(* hold the simulation state, the frame callback update(), the input       *)
(* handler handleInput(), the button handlers and the setTimeout callbacks *)
(* that update() schedules.                                                *)
(*                                                                         *)
(* Numbers.  Lengths are in hundredths of a pixel (1.2 px per frame is     *)
(* 120 here), lives in thousandths (the code's 1.0 is 1000), random draws  *)
(* in tenths (Math.random() = r/10).  Math.cos/Math.sin of an atan2 angle  *)
(* are computed as the ratio of the offset to its length, truncated to a   *)
(* hundredth of a pixel.                                                   *)
(*                                                                         *)
(* Not modelled: drawing, ids, trails, the shake signal, the language      *)
(* switch, the displayed wave bonus, the velocities of debris particles    *)
(* and every colour but that of a blast, which tells what spawned it; none *)
(* of them is read by the game logic.                                      *)
(***************************************************************************)
EXTENDS Integers, Sequences, FiniteSets, TLC

(***************************************************************************)
(* Bounds of the model: the canvas, the environment's inputs and the caps  *)
(* on what the environment does.                                           *)
(***************************************************************************)
CanvasWidth == 100          \* canvas.width in px
CanvasHeight == 70          \* canvas.height in px
MaxEnemies == 1             \* a frame that spawns needs fewer live projectiles
MaxBlasts == 0              \* ... and at most this many live blasts
MaxIdle == 1                \* simulated frames in a row with nothing in the air
MaxInterceptors == 1        \* interceptors in flight after a tap
MaxReaction == 1            \* the player fires within this many frames of a spawn
MaxBatch == 2               \* touches in one touchstart event
MaxLowAmmo == 1             \* rounds a tower has left in the low-ammunition starts
MaxTouches == 3             \* touches in a batch the properties consider
MaxPauseLoad == 1           \* entities on the screen when the player pauses
MaxTimers == 2              \* pending setTimeout callbacks
MaxWave == 3                \* the wave counter is not raised beyond this
MaxSpawnWave == 2           \* projectiles are spawned up to this wave
MaxPlayedWave == 1          \* later waves are followed from their target score on

(***************************************************************************)
(* Program constants.                                                      *)
(***************************************************************************)
InterceptorSpeed == 15      \* px per frame
ExplosionMaxRadius == 60    \* px
ExplosionGrowthRate == 4    \* px per frame
KillScore == 20
AmmoBonus == 5
VictoryScore == 1000
WaveTargetStep == 200
NumCities == 6
NumTowers == 3
EnemyStartY == 20           \* projectiles start at y = -20 px
GroundMargin == 40          \* groundY = height - 40
ImpactMargin == 5           \* impact at y >= groundY - 5

States == {"MENU", "PLAYING", "PAUSED", "WAVE_COMPLETE", "GAME_OVER", "VICTORY"}

(***************************************************************************)
(* Inputs the environment draws from.                                      *)
(***************************************************************************)
TickDeltas == {0, 2000}     \* ms between the timestamps of two frames
TargetRolls == {4}          \* Math.random() for the target, in tenths
StartRolls == {5}           \* Math.random() for startX, in tenths
TapPoints == {<<5000, 0>>}  \* tap coordinates, hundredths of a px

VARIABLES
    gameState,      \* gameStateRef.current (and the React state gameState)
    score,          \* scoreRef.current
    wave,           \* waveRef.current
    towers,         \* towersRef.current: 0..2 -> [ammo, maxAmmo, alive]
    cities,         \* citiesRef.current: 0..5 -> [alive]
    enemies,        \* enemiesRef.current
    interceptors,   \* interceptorsRef.current
    explosions,     \* explosionsRef.current
    particles,      \* particlesRef.current
    floatingTexts,  \* floatingTextsRef.current
    sinceSpawn,     \* time - spawnTimerRef.current, saturated at SpawnCap
    isWaveClearing, \* isWaveClearingRef.current
    isEndlessMode,  \* isEndlessModeRef.current
    timers,         \* callbacks passed to setTimeout(.., 2000), oldest first; history:
                    \* stale = set before the last initGame, old = or the last nextWave,
                    \* spawned = spawnTimerRef was set after the callback was
    settled,        \* history: bonus awards since the last game start or new wave
    idle,           \* history: simulated frames in a row with nothing in the air
    last            \* history: the operation that ran last (pause, resume, quit aside)

vars == <<gameState, score, wave, towers, cities, enemies, interceptors,
          explosions, particles, floatingTexts, sinceSpawn, isWaveClearing,
          isEndlessMode, timers, settled, idle, last>>

(***************************************************************************)
(* Helpers.                                                                *)
(***************************************************************************)
Px(n) == n * 100

Min(a, b) == IF a < b THEN a ELSE b

Max(a, b) == IF a > b THEN a ELSE b

\* floor of the square root, by bisection
RECURSIVE SqrtBetween(_, _, _)
SqrtBetween(n, lo, hi) ==
    IF lo >= hi THEN lo
    ELSE LET mid == (lo + hi + 1) \div 2
         IN  IF mid * mid <= n THEN SqrtBetween(n, mid, hi)
             ELSE SqrtBetween(n, lo, mid - 1)

ISqrt(n) == SqrtBetween(n, 0, 46340)

\* a / b truncated toward zero, b > 0
Trunc(a, b) == IF a < 0 THEN 0 - ((0 - a) \div b) ELSE a \div b

\* squared distance of two points (records with x and y)
DistSq(p, q) == (q.x - p.x) * (q.x - p.x) + (q.y - p.y) * (q.y - p.y)

\* distance(p, q) < d, for d >= 0
DistanceLess(p, q, d) == DistSq(p, q) < d * d

\* speed * (cos, sin) of atan2(dy, dx); atan2(0, 0) = 0
Velocity(dx, dy, speed) ==
    IF dx = 0 /\ dy = 0 THEN [vx |-> speed, vy |-> 0]
    ELSE LET len == ISqrt(dx * dx + dy * dy)
         IN  [vx |-> Trunc(speed * dx, Max(len, 1)),
              vy |-> Trunc(speed * dy, Max(len, 1))]

(***************************************************************************)
(* Layout: update() lines 463-476 and handleInput() lines 827-834.         *)
(***************************************************************************)
GroundY == Px(CanvasHeight - GroundMargin)
TowerY == GroundY - Px(20)
CityY == GroundY - Px(10)

TowerPosition(i) ==
    [x |-> CASE i = 0 -> CanvasWidth * 10
             [] i = 1 -> CanvasWidth * 50
             [] OTHER -> CanvasWidth * 90,
     y |-> TowerY]

CityPosition(i) ==
    [x |-> CASE i = 0 -> CanvasWidth * 20
             [] i = 1 -> CanvasWidth * 30
             [] i = 2 -> CanvasWidth * 40
             [] i = 3 -> CanvasWidth * 60
             [] i = 4 -> CanvasWidth * 70
             [] OTHER -> CanvasWidth * 80,
     y |-> CityY]

InitialTowers ==
    [i \in 0..(NumTowers - 1) |->
        [ammo |-> IF i = 1 THEN 40 ELSE 20,
         maxAmmo |-> IF i = 1 THEN 40 ELSE 20,
         alive |-> TRUE]]

InitialCities == [i \in 0..(NumCities - 1) |-> [alive |-> TRUE]]

(***************************************************************************)
(* Entity constructors.                                                    *)
(***************************************************************************)
\* spawnExplosion(x, y, color): the record pushed onto explosionsRef; the colour
\* is the key of COLORS the caller passes
NewExplosion(x, y, color) ==
    [x |-> x, y |-> y, radius |-> 0, maxRadius |-> Px(ExplosionMaxRadius),
     growthRate |-> Px(ExplosionGrowthRate), life |-> 1000, color |-> color]

\* spawnParticles(x, y, count, color): count records pushed onto particlesRef
NewParticles(count) == [k \in 1..count |-> [life |-> 1000, dead |-> FALSE]]

\* the record addScore pushes onto floatingTextsRef
NewFloatingText(amount) == [text |-> amount, life |-> 1000]

(***************************************************************************)
(* The world a frame works on: the refs update() reads and writes.         *)
(***************************************************************************)
World ==
    [gameState |-> gameState, score |-> score, towers |-> towers,
     cities |-> cities, enemies |-> enemies, interceptors |-> interceptors,
     explosions |-> explosions, particles |-> particles,
     floatingTexts |-> floatingTexts, sinceSpawn |-> sinceSpawn,
     isWaveClearing |-> isWaveClearing, timers |-> timers,
     settled |-> settled]

\* addScore(amount, x, y)
AddScore(w, amount) ==
    [w EXCEPT !.score = @ + amount,
              !.floatingTexts = Append(@, NewFloatingText(amount))]

(***************************************************************************)
(* update(), "Spawning Enemies" (lines 479-522).                           *)
(***************************************************************************)

\* a spawn interval without its floor
SpawnRateUnbounded(w) == 2000 - (w * 150)

SpawnRate(w) == Max(500, 2000 - (w * 150))

\* sinceSpawn saturates here: 2000 ms, above the spawnRate of every wave
SpawnCap == SpawnRate(0)

SpeedBase(w) == 100 + (w * 20)

\* a target list that holds every structure, destroyed or not
PossibleTargetsAll(w) == [k \in 1..(NumCities + NumTowers) |-> k - 1]

\* indices of the alive cities, then 6 + indices of the alive towers
PossibleTargets(w) ==
    LET cs == SelectSeq([k \in 1..NumCities |-> k - 1],
                        LAMBDA i : w.cities[i].alive)
        ts == SelectSeq([k \in 1..NumTowers |-> k - 1 + NumCities],
                        LAMBDA i : w.towers[i - NumCities].alive)
    IN  cs \o ts

TargetPosition(idx) ==
    IF idx < NumCities THEN CityPosition(idx)
    ELSE TowerPosition(idx - NumCities)

NewEnemy(targetIdx, startRoll, wv) ==
    LET t == TargetPosition(targetIdx)
        startX == startRoll * CanvasWidth * 10
        startY == 0 - Px(EnemyStartY)
        v == Velocity(t.x - startX, t.y - startY, SpeedBase(wv))
    IN  [x |-> startX, y |-> startY, vx |-> v.vx, vy |-> v.vy,
         targetIndex |-> targetIdx, speed |-> SpeedBase(wv), dead |-> FALSE]

\* time - spawnTimerRef.current for a frame dt after the previous one
Elapsed(dt) == Min(sinceSpawn + dt, SpawnCap)

SpawnDue(w, wv) == ~w.isWaveClearing /\ w.sinceSpawn > SpawnRate(wv)

SpawnEnemies(w, wv, targetRoll, startRoll) ==
    IF SpawnDue(w, wv)
    THEN LET pt == PossibleTargets(w)
             timed == [w EXCEPT !.sinceSpawn = 0,
                                !.timers = [k \in 1..Len(@) |->
                                               [@[k] EXCEPT !.spawned = TRUE]]]
         IN  IF Len(pt) > 0
             THEN [timed EXCEPT !.enemies = Append(@,
                                    NewEnemy(pt[((targetRoll * Len(pt)) \div 10) + 1],
                                             startRoll, wv))]
             ELSE timed
    ELSE w

(***************************************************************************)
(* update(), "Check Wave Clear" (lines 524-550).                           *)
(***************************************************************************)
RECURSIVE BonusFrom(_, _)
BonusFrom(tw, i) ==
    IF i >= NumTowers THEN 0
    ELSE (IF tw[i].alive THEN tw[i].ammo * AmmoBonus ELSE 0) + BonusFrom(tw, i + 1)

WaveBonus(tw) == BonusFrom(tw, 0)

\* a wave-complete condition that does not wait for the blasts
WaveCompleteEarly(w) ==
    /\ w.isWaveClearing
    /\ Len(w.enemies) = 0

\* the wave-complete condition of line 530
WaveComplete(w) ==
    /\ w.isWaveClearing
    /\ Len(w.enemies) = 0
    /\ Len(w.explosions) = 0

\* the callback passed to setTimeout: VICTORY or WAVE_COMPLETE
Deferred(w, endless) ==
    IF w.score >= VictoryScore /\ w.gameState # "VICTORY" /\ ~endless
    THEN "VICTORY" ELSE "WAVE_COMPLETE"

CheckWaveClear(w, wv, endless) ==
    LET flagged == [w EXCEPT !.isWaveClearing =
                        @ \/ w.score >= wv * WaveTargetStep]
    IN  IF WaveComplete(flagged)
        THEN LET paid == AddScore(flagged, WaveBonus(w.towers))
             IN  [paid EXCEPT !.timers = Append(@, [kind |-> Deferred(paid, endless),
                                                    stale |-> FALSE, old |-> FALSE,
                                                    spawned |-> FALSE]),
                              !.isWaveClearing = FALSE,
                              !.settled = @ + 1]
        ELSE flagged

(***************************************************************************)
(* update(), "Update Entities" (lines 554-629).                            *)
(***************************************************************************)
\* lines 554-563: one interceptor moves; on arrival it is marked dead
MoveInterceptor(p) ==
    LET moved == [p EXCEPT !.x = @ + p.vx, !.y = @ + p.vy]
    IN  IF DistanceLess(moved, moved.target, moved.speed)
        THEN [moved EXCEPT !.dead = TRUE]
        ELSE moved

\* blasts spawned where the interceptors are when they arrive
RECURSIVE ArrivalBlastsInPlace(_)
ArrivalBlastsInPlace(ps) ==
    IF ps = <<>> THEN <<>>
    ELSE (IF Head(ps).dead
          THEN <<NewExplosion(Head(ps).x, Head(ps).y, "primary")>>
          ELSE <<>>) \o ArrivalBlastsInPlace(Tail(ps))

\* the blasts the interceptors that arrive in this frame spawn, in order
RECURSIVE ArrivalBlasts(_)
ArrivalBlasts(ps) ==
    IF ps = <<>> THEN <<>>
    ELSE (IF Head(ps).dead
          THEN <<NewExplosion(Head(ps).target.x, Head(ps).target.y, "primary")>>
          ELSE <<>>) \o ArrivalBlasts(Tail(ps))

UpdateInterceptors(w) ==
    LET moved == [k \in 1..Len(w.interceptors) |-> MoveInterceptor(w.interceptors[k])]
    IN  [w EXCEPT !.interceptors = moved,
                  !.explosions = @ \o ArrivalBlasts(moved)]

\* a blast that fades while it grows
GrowExplosionFading(e) ==
    IF e.radius < e.maxRadius
    THEN [e EXCEPT !.radius = @ + e.growthRate, !.life = @ - 50]
    ELSE [e EXCEPT !.life = @ - 50]

\* a blast that stays once it is at full size
GrowExplosionLasting(e) ==
    IF e.radius < e.maxRadius
    THEN [e EXCEPT !.radius = @ + e.growthRate]
    ELSE e

\* lines 565-571: one blast grows, then decays
GrowExplosion(e) ==
    IF e.radius < e.maxRadius
    THEN [e EXCEPT !.radius = @ + e.growthRate]
    ELSE [e EXCEPT !.life = @ - 50]

UpdateExplosions(w) ==
    [w EXCEPT !.explosions = [k \in 1..Len(@) |-> GrowExplosion(@[k])]]

\* a blast check that only the blast of an interceptor passes
InBlastPrimary(e, exps) ==
    \E k \in 1..Len(exps) :
        exps[k].color = "primary" /\ DistanceLess(e, exps[k], exps[k].radius)

\* line 580: the projectile is inside some blast of the list
InBlast(e, exps) ==
    \E k \in 1..Len(exps) : DistanceLess(e, exps[k], exps[k].radius)

\* a hit that falls on the first city still alive when its own target is a city
\* already dead
DamageStructureRetargeting(w, targetIndex) ==
    LET standing == {c \in 0..(NumCities - 1) : w.cities[c].alive}
        first == CHOOSE c \in standing : \A d \in standing : c <= d
    IN  IF targetIndex < NumCities
        THEN IF w.cities[targetIndex].alive
             THEN [w EXCEPT !.cities[targetIndex].alive = FALSE,
                            !.gameState = IF standing = {targetIndex}
                                          THEN "GAME_OVER" ELSE @]
             ELSE IF standing = {} THEN w
             ELSE [w EXCEPT !.cities[first].alive = FALSE,
                            !.gameState = IF standing = {first}
                                          THEN "GAME_OVER" ELSE @]
        ELSE LET t == targetIndex - NumCities
             IN  IF w.towers[t].alive
                 THEN [w EXCEPT !.towers[t].alive = FALSE, !.towers[t].ammo = 0]
                 ELSE w

\* lines 595-615: the structure at targetIndex is hit
DamageStructure(w, targetIndex) ==
    IF targetIndex < NumCities
    THEN IF w.cities[targetIndex].alive
         THEN LET hit == [w.cities EXCEPT ![targetIndex].alive = FALSE]
              IN  [w EXCEPT !.cities = hit,
                            !.gameState =
                                IF \A c \in DOMAIN hit : ~hit[c].alive
                                THEN "GAME_OVER" ELSE @]
         ELSE w
    ELSE LET t == targetIndex - NumCities
         IN  IF w.towers[t].alive
             THEN [w EXCEPT !.towers[t].alive = FALSE, !.towers[t].ammo = 0]
             ELSE w

\* a projectile step that looks at the ground before it looks at the blasts
UpdateEnemyGroundFirst(w, k) ==
    LET e == [w.enemies[k] EXCEPT !.x = @ + w.enemies[k].vx,
                                  !.y = @ + w.enemies[k].vy]
        moved == [w EXCEPT !.enemies[k] = e]
    IN  IF e.y >= GroundY - Px(ImpactMargin)
        THEN DamageStructure(
                 [moved EXCEPT !.enemies[k].dead = TRUE,
                               !.explosions = Append(@, NewExplosion(e.x, e.y, "warning")),
                               !.particles = @ \o NewParticles(15)],
                 e.targetIndex)
        ELSE IF InBlast(e, w.explosions)
        THEN LET scored == AddScore([moved EXCEPT !.enemies[k].dead = TRUE], KillScore)
             IN  [scored EXCEPT !.particles = @ \o NewParticles(10),
                                !.explosions = Append(@, NewExplosion(e.x, e.y, "secondary"))]
        ELSE moved

\* lines 574-616: the body of enemiesRef.current.forEach for the k-th projectile
UpdateEnemy(w, k) ==
    LET e == [w.enemies[k] EXCEPT !.x = @ + w.enemies[k].vx,
                                  !.y = @ + w.enemies[k].vy]
        moved == [w EXCEPT !.enemies[k] = e]
    IN  IF InBlast(e, w.explosions)
        THEN LET scored == AddScore([moved EXCEPT !.enemies[k].dead = TRUE], KillScore)
             IN  [scored EXCEPT !.particles = @ \o NewParticles(10),
                                !.explosions = Append(@, NewExplosion(e.x, e.y, "secondary"))]
        ELSE IF e.y >= GroundY - Px(ImpactMargin)
        THEN DamageStructure(
                 [moved EXCEPT !.enemies[k].dead = TRUE,
                               !.explosions = Append(@, NewExplosion(e.x, e.y, "warning")),
                               !.particles = @ \o NewParticles(15)],
                 e.targetIndex)
        ELSE moved

RECURSIVE UpdateEnemiesFrom(_, _)
UpdateEnemiesFrom(w, k) ==
    IF k > Len(w.enemies) THEN w
    ELSE UpdateEnemiesFrom(UpdateEnemy(w, k), k + 1)

UpdateEnemies(w) == UpdateEnemiesFrom(w, 1)

\* lines 619-624
DecayParticle(p) ==
    LET q == [p EXCEPT !.life = @ - 20]
    IN  IF q.life <= 0 THEN [q EXCEPT !.dead = TRUE] ELSE q

\* lines 626-629
DecayFloatingText(t) == [t EXCEPT !.life = @ - 15]

UpdateCosmetics(w) ==
    [w EXCEPT !.particles = [k \in 1..Len(@) |-> DecayParticle(@[k])],
              !.floatingTexts = [k \in 1..Len(@) |-> DecayFloatingText(@[k])]]

\* a cull that leaves the faded blasts in explosionsRef
CleanupKeepingBlasts(w) ==
    [w EXCEPT !.interceptors = SelectSeq(@, LAMBDA p : ~p.dead),
              !.enemies = SelectSeq(@, LAMBDA e : ~e.dead),
              !.particles = SelectSeq(@, LAMBDA p : ~p.dead),
              !.floatingTexts = SelectSeq(@, LAMBDA t : t.life > 0)]

\* lines 631-636: "Cleanup Dead Entities"
Cleanup(w) ==
    [w EXCEPT !.interceptors = SelectSeq(@, LAMBDA p : ~p.dead),
              !.enemies = SelectSeq(@, LAMBDA e : ~e.dead),
              !.explosions = SelectSeq(@, LAMBDA e : e.life > 0),
              !.particles = SelectSeq(@, LAMBDA p : ~p.dead),
              !.floatingTexts = SelectSeq(@, LAMBDA t : t.life > 0)]

(***************************************************************************)
(* update(time): one frame (lines 435-637).                                *)
(***************************************************************************)
\* the game logic of a frame while gameStateRef.current is PLAYING
Simulate(w, wv, endless, targetRoll, startRoll) ==
    Cleanup(UpdateCosmetics(UpdateEnemies(UpdateExplosions(UpdateInterceptors(
        CheckWaveClear(SpawnEnemies(w, wv, targetRoll, startRoll), wv, endless))))))

\* a frame that runs the game logic whatever the game state is
FrameUnpaused(dt, targetRoll, startRoll) ==
    Simulate([World EXCEPT !.sinceSpawn = Elapsed(dt)], wave, isEndlessMode,
             targetRoll, startRoll)

\* the frame dt after the previous one
Frame(dt, targetRoll, startRoll) ==
    LET w == [World EXCEPT !.sinceSpawn = Elapsed(dt)]
    IN  IF gameState = "PLAYING"
        THEN Simulate(w, wave, isEndlessMode, targetRoll, startRoll)
        ELSE w

(***************************************************************************)
(* handleInput(clientX, clientY) (lines 818-871).                          *)
(***************************************************************************)
Eligible(tw, i) == tw[i].alive /\ tw[i].ammo > 0

\* lines 836-846: the forEach keeps the first tower of strictly smaller distance
RECURSIVE NearestFrom(_, _, _, _)
NearestFrom(tw, pt, i, best) ==
    IF i >= NumTowers THEN best
    ELSE IF Eligible(tw, i)
            /\ (best = -1 \/ DistSq(TowerPosition(i), pt) < DistSq(TowerPosition(best), pt))
         THEN NearestFrom(tw, pt, i + 1, i)
         ELSE NearestFrom(tw, pt, i + 1, best)

\* a search that stops at the first tower able to fire, wherever the tap is
NearestTowerFirst(tw, pt) ==
    IF \E i \in 0..(NumTowers - 1) : Eligible(tw, i)
    THEN CHOOSE i \in 0..(NumTowers - 1) :
             Eligible(tw, i) /\ \A j \in 0..(i - 1) : ~Eligible(tw, j)
    ELSE -1

NearestTower(tw, pt) == NearestFrom(tw, pt, 0, -1)

NewInterceptor(t, pt) ==
    LET from == TowerPosition(t)
        v == Velocity(pt.x - from.x, pt.y - from.y, Px(InterceptorSpeed))
    IN  [x |-> from.x, y |-> from.y, vx |-> v.vx, vy |-> v.vy, target |-> pt,
         speed |-> Px(InterceptorSpeed), originTowerIndex |-> t, dead |-> FALSE]

\* a handleInput() that fires from the nearest living tower whatever ammo it has
HandleInputUnchecked(st, state, pt) ==
    LET living == {i \in 0..(NumTowers - 1) : st.towers[i].alive}
        nearer(i, j) ==
            \/ DistSq(TowerPosition(i), pt) < DistSq(TowerPosition(j), pt)
            \/ DistSq(TowerPosition(i), pt) = DistSq(TowerPosition(j), pt) /\ i <= j
        t == IF living = {} THEN -1
             ELSE CHOOSE i \in living : \A j \in living : nearer(i, j)
    IN  IF state # "PLAYING" \/ t = -1 THEN st
        ELSE [towers |-> [st.towers EXCEPT ![t].ammo = @ - 1],
              interceptors |-> Append(st.interceptors, NewInterceptor(t, pt))]

\* a handleInput() without the early return of line 819
HandleInputAnyState(st, state, pt) ==
    LET t == NearestTower(st.towers, pt)
    IN  IF t = -1 THEN st
        ELSE [towers |-> [st.towers EXCEPT ![t].ammo = @ - 1],
              interceptors |-> Append(st.interceptors, NewInterceptor(t, pt))]

\* one call of handleInput on st = [towers, interceptors]
HandleInput(st, state, pt) ==
    LET t == NearestTower(st.towers, pt)
    IN  IF state # "PLAYING" \/ t = -1 THEN st
        ELSE [towers |-> [st.towers EXCEPT ![t].ammo = @ - 1],
              interceptors |-> Append(st.interceptors, NewInterceptor(t, pt))]

\* onTouchStart (lines 922-927): handleInput for each changed touch, in order
RECURSIVE HandleTouches(_, _, _)
HandleTouches(st, state, pts) ==
    IF pts = <<>> THEN st
    ELSE HandleTouches(HandleInput(st, state, [x |-> Head(pts)[1], y |-> Head(pts)[2]]),
                       state, Tail(pts))

(***************************************************************************)
(* What the environment is allowed to do (the bounds above).               *)
(***************************************************************************)
\* a frame whose timestamp passes the spawn interval is admitted only within the
\* caps, after the callbacks of earlier waves have run, once per pending callback,
\* up to wave MaxSpawnWave, and after wave MaxPlayedWave only once the target score
\* of the wave is met
SpawnAdmitted(dt) ==
    (~isWaveClearing /\ Elapsed(dt) > SpawnRate(wave))
        => /\ wave <= MaxSpawnWave
           /\ wave <= MaxPlayedWave \/ score >= wave * WaveTargetStep
           /\ Len(enemies) < MaxEnemies
           /\ Len(explosions) <= MaxBlasts
           /\ \A k \in 1..Len(timers) : ~timers[k].old /\ ~timers[k].spawned

\* the player pauses on a quiet screen
OnScreen ==
    Len(enemies) + Len(interceptors) + Len(explosions) + Len(particles)
        + Len(floatingTexts)

\* nothing is in the air and the frame dt after the previous one spawns nothing
IdleFrame(dt) ==
    /\ gameState = "PLAYING"
    /\ Len(enemies) + Len(interceptors) + Len(explosions) = 0
    /\ isWaveClearing \/ Elapsed(dt) <= SpawnRate(wave)

\* some projectile was spawned at most MaxReaction frames ago
FreshEnemy ==
    \E k \in 1..Len(enemies) :
        enemies[k].y + Px(EnemyStartY) <= MaxReaction * enemies[k].speed

Batches == UNION {[1..n -> TapPoints] : n \in 1..MaxBatch}

(***************************************************************************)
(* The operations.                                                         *)
(***************************************************************************)
Init ==
    /\ gameState = "MENU"
    /\ score = 0
    /\ wave = 1
    /\ towers = InitialTowers
    /\ cities = InitialCities
    /\ enemies = <<>>
    /\ interceptors = <<>>
    /\ explosions = <<>>
    /\ particles = <<>>
    /\ floatingTexts = <<>>
    /\ sinceSpawn = 0
    /\ isWaveClearing = FALSE
    /\ isEndlessMode = FALSE
    /\ timers = <<>>
    /\ settled = 0
    /\ idle = 0
    /\ last = "init"

\* requestAnimationFrame callback: update(time)
Tick ==
    \E dt \in TickDeltas, targetRoll \in TargetRolls, startRoll \in StartRolls :
        LET w == Frame(dt, targetRoll, startRoll)
        IN  /\ SpawnAdmitted(dt)
            /\ IdleFrame(dt) => idle < MaxIdle
            /\ idle' = IF IdleFrame(dt) THEN idle + 1
                        ELSE IF gameState = "PLAYING" THEN 0 ELSE idle
            /\ Len(w.timers) <= MaxTimers
            /\ gameState' = w.gameState
            /\ score' = w.score
            /\ towers' = w.towers
            /\ cities' = w.cities
            /\ enemies' = w.enemies
            /\ interceptors' = w.interceptors
            /\ explosions' = w.explosions
            /\ particles' = w.particles
            /\ floatingTexts' = w.floatingTexts
            /\ sinceSpawn' = w.sinceSpawn
            /\ isWaveClearing' = w.isWaveClearing
            /\ timers' = w.timers
            /\ settled' = w.settled
            /\ last' = "tick"
            /\ UNCHANGED <<wave, isEndlessMode>>

\* the callback of setTimeout(.., 2000) (lines 539-547); equal delays run in order,
\* and no earlier than 2000 ms after the frame that set them
TimerFire ==
    /\ timers # <<>>
    /\ gameState' = Head(timers).kind
    /\ timers' = Tail(timers)
    /\ sinceSpawn' = IF Head(timers).spawned THEN sinceSpawn ELSE SpawnCap
    /\ last' = "timer"
    /\ UNCHANGED <<score, wave, towers, cities, enemies, interceptors, explosions,
                   particles, floatingTexts, isWaveClearing, isEndlessMode,
                   settled, idle>>

\* an initGame() that leaves the entity lists as they are
InitGameKeepingEntities ==
    /\ score' = 0
    /\ wave' = 1
    /\ isEndlessMode' = FALSE
    /\ towers' = InitialTowers
    /\ cities' = InitialCities
    /\ isWaveClearing' = FALSE
    /\ gameState' = "PLAYING"
    /\ timers' = [k \in 1..Len(timers) |->
                      [timers[k] EXCEPT !.stale = TRUE, !.old = TRUE]]
    /\ settled' = 0
    /\ idle' = 0
    /\ UNCHANGED <<enemies, interceptors, explosions, particles, floatingTexts,
                   sinceSpawn>>

\* initGame() (lines 333-362)
InitGame ==
    /\ score' = 0
    /\ wave' = 1
    /\ isEndlessMode' = FALSE
    /\ towers' = InitialTowers
    /\ cities' = InitialCities
    /\ enemies' = <<>>
    /\ interceptors' = <<>>
    /\ explosions' = <<>>
    /\ particles' = <<>>
    /\ floatingTexts' = <<>>
    /\ isWaveClearing' = FALSE
    /\ gameState' = "PLAYING"
    /\ timers' = [k \in 1..Len(timers) |->
                      [timers[k] EXCEPT !.stale = TRUE, !.old = TRUE]]
    /\ settled' = 0
    /\ idle' = 0
    /\ UNCHANGED sinceSpawn

\* a nextWave() that refills the towers still standing and leaves the others
RefilledTowers(tw) ==
    [i \in DOMAIN tw |-> [tw[i] EXCEPT !.ammo = IF tw[i].alive THEN tw[i].maxAmmo ELSE 0]]

\* lines 366-369: every tower is alive again, with its full ammo
RearmedTowers(tw) ==
    [i \in DOMAIN tw |-> [tw[i] EXCEPT !.alive = TRUE, !.ammo = tw[i].maxAmmo]]

\* a nextWave() that rebuilds the cities as initGame() does
NextWaveCallRebuilding ==
    /\ wave < MaxWave
    /\ towers' = RearmedTowers(towers)
    /\ cities' = InitialCities
    /\ wave' = wave + 1
    /\ isWaveClearing' = FALSE
    /\ gameState' = "PLAYING"
    /\ settled' = 0
    /\ idle' = 0
    /\ timers' = [k \in 1..Len(timers) |-> [timers[k] EXCEPT !.old = TRUE]]
    /\ UNCHANGED <<score, enemies, interceptors, explosions, particles,
                   floatingTexts, sinceSpawn>>

\* nextWave() (lines 364-380)
NextWaveCall ==
    /\ wave < MaxWave
    /\ towers' = RearmedTowers(towers)
    /\ wave' = wave + 1
    /\ isWaveClearing' = FALSE
    /\ gameState' = "PLAYING"
    /\ settled' = 0
    /\ idle' = 0
    /\ timers' = [k \in 1..Len(timers) |-> [timers[k] EXCEPT !.old = TRUE]]
    /\ UNCHANGED <<score, cities, enemies, interceptors, explosions, particles,
                   floatingTexts, sinceSpawn>>

\* the start button of the MENU overlay (line 1013)
StartGame ==
    /\ gameState = "MENU"
    /\ InitGame
    /\ last' = "start"

\* the restart buttons of the GAME_OVER and VICTORY overlays (lines 1089, 1112)
Restart ==
    /\ gameState \in {"GAME_OVER", "VICTORY"}
    /\ InitGame
    /\ last' = "restart"

\* the next-wave button of the WAVE_COMPLETE overlay (line 1068)
NextWave ==
    /\ gameState = "WAVE_COMPLETE"
    /\ NextWaveCall
    /\ last' = "nextWave"
    /\ UNCHANGED isEndlessMode

\* the endless button of the VICTORY overlay (lines 1117-1124)
Endless ==
    /\ gameState = "VICTORY"
    /\ NextWaveCall
    /\ isEndlessMode' = TRUE
    /\ last' = "endless"

\* the pause button of the HUD (lines 954-963)
TogglePause ==
    /\ gameState \in {"PLAYING", "PAUSED"}
    /\ gameState = "PLAYING" => OnScreen <= MaxPauseLoad
    /\ gameState' = IF gameState = "PLAYING" THEN "PAUSED" ELSE "PLAYING"
    /\ UNCHANGED <<score, wave, towers, cities, enemies, interceptors, explosions,
                   particles, floatingTexts, sinceSpawn, isWaveClearing,
                   isEndlessMode, timers, settled, idle, last>>

\* the resume button of the PAUSED overlay (lines 1033-1037)
Resume ==
    /\ gameState = "PAUSED"
    /\ gameState' = "PLAYING"
    /\ UNCHANGED <<score, wave, towers, cities, enemies, interceptors, explosions,
                   particles, floatingTexts, sinceSpawn, isWaveClearing,
                   isEndlessMode, timers, settled, idle, last>>

\* the quit button of the PAUSED overlay (lines 1042-1046)
Quit ==
    /\ gameState = "PAUSED"
    /\ gameState' = "MENU"
    /\ UNCHANGED <<score, wave, towers, cities, enemies, interceptors, explosions,
                   particles, floatingTexts, sinceSpawn, isWaveClearing,
                   isEndlessMode, timers, settled, idle, last>>

\* onMouseDown / onTouchStart of the canvas (lines 921-927)
Tap ==
    \E pts \in Batches :
        LET st == HandleTouches([towers |-> towers, interceptors |-> interceptors],
                                gameState, pts)
        IN  /\ FreshEnemy
            /\ Len(st.interceptors) <= MaxInterceptors
            /\ towers' = st.towers
            /\ interceptors' = st.interceptors
            /\ last' = "tap"
            /\ UNCHANGED <<gameState, score, wave, cities, enemies, explosions,
                           particles, floatingTexts, sinceSpawn, isWaveClearing,
                           isEndlessMode, timers, settled, idle>>

Next ==
    \/ Tick
    \/ TimerFire
    \/ StartGame
    \/ Restart
    \/ NextWave
    \/ Endless
    \/ TogglePause
    \/ Resume
    \/ Quit
    \/ Tap

Spec == Init /\ [][Next]_vars

(***************************************************************************)
(* The same program, followed also from a game in which the player has     *)
(* fired all but a few rounds at the empty sky: the state after the start  *)
(* button, taps on the canvas and the frames in which their blasts fade.   *)
(***************************************************************************)
LowAmmoTowers ==
    {tw \in [0..(NumTowers - 1) -> [ammo : 0..MaxLowAmmo, maxAmmo : {20, 40},
                                      alive : {TRUE}]] :
        \A t \in 0..(NumTowers - 1) : tw[t].maxAmmo = InitialTowers[t].maxAmmo}

LowAmmoInit ==
    /\ gameState = "PLAYING"
    /\ score = 0
    /\ wave = 1
    /\ towers \in LowAmmoTowers
    /\ cities = InitialCities
    /\ enemies = <<>>
    /\ interceptors = <<>>
    /\ explosions = <<>>
    /\ particles = <<>>
    /\ floatingTexts = <<>>
    /\ sinceSpawn = 0
    /\ isWaveClearing = FALSE
    /\ isEndlessMode = FALSE
    /\ timers = <<>>
    /\ settled = 0
    /\ idle = 0
    /\ last = "tick"

LowAmmoSpec == (Init \/ LowAmmoInit) /\ [][Next]_vars

(***************************************************************************)
(* The same program, followed from a game of wave 1 in which frames more   *)
(* than the spawn interval apart have put projectiles in the air and the   *)
(* player has just tapped, or not.                                         *)
(***************************************************************************)
\* lines 574-575, n times: the projectile after n frames of flight
Aged(e, n) == [e EXCEPT !.x = @ + (n * e.vx), !.y = @ + (n * e.vy)]

\* a projectile of wave 1 spawned age frames ago
InFlight(targetIdx, startRoll, age) == Aged(NewEnemy(targetIdx, startRoll, 1), age)

\* the projectiles in the air, oldest first
SkyFlights ==
    {<<InFlight(0, 3, 4), InFlight(5, 9, 1)>>,
     <<InFlight(0, 9, 76), InFlight(0, 2, 37)>>,
     <<InFlight(8, 1, 107), InFlight(8, 9, 37)>>,
     <<InFlight(0, 3, 38), InFlight(0, 2, 37), InFlight(0, 2, 36)>>,
     <<InFlight(3, 5, 1)>>}

\* the touches of the tap, if any
SkyTaps == {<<>>, <<<<0, 0>>>>, <<<<Px(30), Px(CanvasHeight)>>>>, <<<<Px(50), 0>>>>}

SkyInit ==
    /\ gameState = "PLAYING"
    /\ score = 0
    /\ wave = 1
    /\ \E pts \in SkyTaps :
          LET st == HandleTouches([towers |-> InitialTowers, interceptors |-> <<>>],
                                  "PLAYING", pts)
          IN  /\ towers = st.towers
              /\ interceptors = st.interceptors
              /\ last = IF pts = <<>> THEN "tick" ELSE "tap"
    /\ cities = InitialCities
    /\ enemies \in SkyFlights
    /\ explosions = <<>>
    /\ particles = <<>>
    /\ floatingTexts = <<>>
    /\ sinceSpawn = 0
    /\ isWaveClearing = FALSE
    /\ isEndlessMode = FALSE
    /\ timers = <<>>
    /\ settled = 0
    /\ idle = 0

SkySpec == SkyInit /\ [][Tick]_vars

(***************************************************************************)
(* The end of a wave.  The player is one kill short of the target score of *)
(* wave 1 with little ammunition left and projectiles in the air; from     *)
(* there on frames keep coming, the callbacks of setTimeout run, and the   *)
(* player taps whenever they like; nobody pauses or presses a button.      *)
(***************************************************************************)
\* the projectiles in the air, oldest first
SettleFlights ==
    {<<InFlight(3, 5, 1)>>,
     <<InFlight(0, 3, 38), InFlight(0, 2, 37), InFlight(0, 2, 36)>>}

\* the middle tower may have a round left, the outer ones have none
SettleTowers ==
    {tw \in LowAmmoTowers : tw[0].ammo = 0 /\ tw[2].ammo = 0}

SettleInit ==
    /\ gameState = "PLAYING"
    /\ score = WaveTargetStep - KillScore
    /\ wave = 1
    /\ towers \in SettleTowers
    /\ cities = InitialCities
    /\ enemies \in SettleFlights
    /\ interceptors = <<>>
    /\ explosions = <<>>
    /\ particles = <<>>
    /\ floatingTexts = <<>>
    /\ sinceSpawn = 0
    /\ isWaveClearing = FALSE
    /\ isEndlessMode = FALSE
    /\ timers = <<>>
    /\ settled = 0
    /\ idle = 0
    /\ last = "tick"

\* onMouseDown / onTouchStart of the canvas (lines 921-927), at any moment
TapAnytime ==
    \E pts \in Batches :
        LET st == HandleTouches([towers |-> towers, interceptors |-> interceptors],
                                gameState, pts)
        IN  /\ Len(st.interceptors) <= MaxInterceptors
            /\ towers' = st.towers
            /\ interceptors' = st.interceptors
            /\ last' = "tap"
            /\ UNCHANGED <<gameState, score, wave, cities, enemies, explosions,
                           particles, floatingTexts, sinceSpawn, isWaveClearing,
                           isEndlessMode, timers, settled, idle>>

SettleNext ==
    \/ Tick
    \/ TimerFire
    \/ TapAnytime

\* ENABLED <<Tick>>_vars written out: a frame the environment admits changes
\* the state
TickEnabled ==
    \E dt \in TickDeltas, targetRoll \in TargetRolls, startRoll \in StartRolls :
        LET w == Frame(dt, targetRoll, startRoll)
            nextIdle == IF IdleFrame(dt) THEN idle + 1
                        ELSE IF gameState = "PLAYING" THEN 0 ELSE idle
        IN  /\ SpawnAdmitted(dt)
            /\ IdleFrame(dt) => idle < MaxIdle
            /\ Len(w.timers) <= MaxTimers
            /\ w # World \/ nextIdle # idle \/ last # "tick"

\* WF_vars(Tick), with TickEnabled for ENABLED <<Tick>>_vars
TickFairness == <>[]TickEnabled => []<><<Tick>>_vars

\* every frame requests the next one (lines 443, 448, 813), and the callbacks of
\* setTimeout run once their delay is over
SettleSpec ==
    SettleInit /\ [][SettleNext]_vars /\ TickFairness /\ WF_vars(TimerFire)

(***************************************************************************)
(* Properties.                                                             *)
(***************************************************************************)
AllCitiesDead(cs) == \A c \in 0..(NumCities - 1) : ~cs[c].alive

\* C1: between a game start or new-wave reset and the next one, the end-of-wave
\* bonus is added to the score in at most one simulation step, the steps of
\* the grace delay included.
C1_BonusOnce == settled <= 1

\* C2: a deferred transition scheduled before the last initGame() leaves the
\* game state as it is when its callback runs.
C2_StaleCallbackInert ==
    [][(TimerFire /\ Head(timers).stale) => gameState' = gameState]_vars

\* C3: the game state changes only along Menu->Playing (start),
\* Playing<->Paused, Playing->GameOver, Playing->WaveComplete and
\* Playing->Victory (deferred), WaveComplete->Playing (next wave),
\* Victory->Playing (endless) and the restart from GameOver or Victory.
LegalTransition ==
    \/ gameState = "MENU" /\ gameState' = "PLAYING" /\ StartGame
    \/ gameState = "PLAYING" /\ gameState' = "PAUSED"
    \/ gameState = "PAUSED" /\ gameState' = "PLAYING"
    \/ gameState = "PLAYING" /\ gameState' = "GAME_OVER" /\ Tick
    \/ gameState = "PLAYING" /\ gameState' \in {"WAVE_COMPLETE", "VICTORY"} /\ TimerFire
    \/ gameState = "WAVE_COMPLETE" /\ gameState' = "PLAYING" /\ NextWave
    \/ gameState = "VICTORY" /\ gameState' = "PLAYING" /\ Endless
    \/ gameState \in {"GAME_OVER", "VICTORY"} /\ gameState' = "PLAYING" /\ Restart

C3_OnlyLegalTransitions == [][gameState' # gameState => LegalTransition]_vars

\* C4: a frame simulated in Playing ends in GameOver exactly when it leaves all
\* six cities dead, and in GameOver every city is dead.
C4_GameOverIffAllCitiesDead ==
    [][/\ (Tick /\ gameState = "PLAYING")
            => (gameState' = "GAME_OVER" <=> AllCitiesDead(cities'))
       /\ gameState' = "GAME_OVER" => AllCitiesDead(cities')]_vars

\* C5: GameOver is left only by the restart action.
C5_GameOverUntilRestart ==
    [][gameState = "GAME_OVER" => (gameState' = "GAME_OVER" \/ Restart)]_vars

\* C6: in Victory the score is at least 1000.
C6_VictoryScore == gameState = "VICTORY" => score >= VictoryScore

\* C7: once endless mode is on (continue from Victory), and until the next
\* initGame(), the game state is never Victory.
C7_NoVictoryInEndless == isEndlessMode => gameState # "VICTORY"

\* total ammo of the towers that are alive
RECURSIVE AmmoFrom(_, _)
AmmoFrom(tw, i) ==
    IF i >= NumTowers THEN 0
    ELSE (IF tw[i].alive THEN tw[i].ammo ELSE 0) + AmmoFrom(tw, i + 1)

TotalAmmo(tw) == AmmoFrom(tw, 0)

AmmoInRange ==
    \A t \in 0..(NumTowers - 1) : 0 <= towers[t].ammo /\ towers[t].ammo <= towers[t].maxAmmo

AmmoRefilled == \E t \in 0..(NumTowers - 1) : towers'[t].ammo > towers[t].ammo

TouchBatches == UNION {[1..n -> TapPoints] : n \in 1..MaxTouches}

\* what one touchstart event with the touches pts does to the current state
Touched(pts) ==
    HandleTouches([towers |-> towers, interceptors |-> interceptors], gameState, pts)

Launched(pts) == Len(Touched(pts).interceptors) - Len(interceptors)

\* a batch of k touches launches n interceptors and lowers the total ammo by n
BatchLaunches(pts, n) ==
    /\ Launched(pts) = n
    /\ TotalAmmo(Touched(pts).towers) = TotalAmmo(towers) - n

\* C8: ammo stays within 0..maxAmmo, it increases only through nextWave() or
\* initGame(), and a batch of k touches that handleInput() resolves during play
\* launches min(k, total ammo of the alive towers) interceptors and lowers the
\* total ammo by as many.
C8_AmmoAndBatch ==
    /\ []AmmoInRange
    /\ [][AmmoRefilled => (InitGame \/ NextWaveCall)]_vars
    /\ [](gameState = "PLAYING" =>
            \A pts \in TouchBatches :
                BatchLaunches(pts, Min(Len(pts), TotalAmmo(towers))))

\* a touch has used the last round of the towers, one of them alive
C8_Witness ==
    /\ last = "tap"
    /\ gameState = "PLAYING"
    /\ TotalAmmo(towers) = 0
    /\ Len(interceptors) = 1
    /\ \E t \in 0..(NumTowers - 1) : towers[t].alive

\* C9: a dead city comes alive only through initGame(), a dead tower only
\* through initGame() or nextWave().
C9_DeadStaysDead ==
    [][/\ (\E c \in 0..(NumCities - 1) : ~cities[c].alive /\ cities'[c].alive)
            => InitGame
       /\ (\E t \in 0..(NumTowers - 1) : ~towers[t].alive /\ towers'[t].alive)
            => (InitGame \/ NextWaveCall)]_vars

\* a new wave was started with a city lost, and a tower was lost in that wave
C9_Witness ==
    /\ wave > 1
    /\ \E c \in 0..(NumCities - 1) : ~cities[c].alive
    /\ \E t \in 0..(NumTowers - 1) : ~towers[t].alive

\* C10: nextWave(), from WaveComplete or as the endless continue from Victory,
\* revives and refills every tower, adds one to the wave, clears the
\* wave-clearing flag, sets the state to Playing and keeps cities and score.
C10_NextWaveEffect ==
    [][(NextWave \/ Endless)
         => /\ \A t \in 0..(NumTowers - 1) :
                  towers'[t].alive /\ towers'[t].ammo = towers[t].maxAmmo
                    /\ towers'[t].maxAmmo = towers[t].maxAmmo
            /\ wave' = wave + 1
            /\ ~isWaveClearing'
            /\ gameState' = "PLAYING"
            /\ \A c \in 0..(NumCities - 1) : cities'[c].alive = cities[c].alive
            /\ score' = score]_vars

\* a new wave has just begun with a city lost and points scored
C10_Witness ==
    /\ last \in {"nextWave", "endless"}
    /\ wave > 1
    /\ score > 0
    /\ \E c \in 0..(NumCities - 1) : ~cities[c].alive

\* points of the canvas a tap is tried at: on, between and beside the towers
ProbePoints ==
    {[x |-> CanvasWidth * kx, y |-> Px(ky)] :
        kx \in {0, 10, 29, 30, 31, 50, 70, 90, 100}, ky \in {0, CanvasHeight - 60, CanvasHeight}}

\* what handleInput(pt) does to the current state
Fired(pt) == HandleInput([towers |-> towers, interceptors |-> interceptors], gameState, pt)

SomeEligible == \E t \in 0..(NumTowers - 1) : Eligible(towers, t)

\* tower t can fire and no tower that can fire is nearer to pt
NearestEligible(t, pt) ==
    /\ Eligible(towers, t)
    /\ \A u \in 0..(NumTowers - 1) :
          Eligible(towers, u)
              => DistSq(TowerPosition(t), pt) <= DistSq(TowerPosition(u), pt)

\* the result f of handleInput(pt): tower t lost one round and one interceptor was
\* launched from it
FiredFrom(f, t, pt) ==
    /\ f.towers = [towers EXCEPT ![t].ammo = @ - 1]
    /\ Len(f.interceptors) = Len(interceptors) + 1
    /\ SubSeq(f.interceptors, 1, Len(interceptors)) = interceptors
    /\ LET p == f.interceptors[Len(f.interceptors)]
       IN  /\ p.x = TowerPosition(t).x
           /\ p.y = TowerPosition(t).y
           /\ p.target = pt
           /\ p.originTowerIndex = t
           /\ ~p.dead

\* handleInput(pt) fires from a nearest tower among those able to fire
FiresNearest(pt) ==
    LET f == Fired(pt)
    IN  /\ f.interceptors # <<>>
        /\ LET t == f.interceptors[Len(f.interceptors)].originTowerIndex
           IN  /\ t \in 0..(NumTowers - 1)
               /\ NearestEligible(t, pt)
               /\ FiredFrom(f, t, pt)

SameAliveFlags ==
    /\ \A t \in 0..(NumTowers - 1) : towers'[t].alive = towers[t].alive
    /\ \A c \in 0..(NumCities - 1) : cities'[c].alive = cities[c].alive

\* C11: while Playing, a tap for which some tower is alive with ammo fires from a
\* tower of least distance among the towers that are alive with ammo: that
\* tower loses one round and one interceptor starts at its position with the
\* tap as target; the taps on the canvas leave alive flags, score, wave and game
\* state as they are.
C11_TapFiresNearest ==
    /\ [](gameState = "PLAYING" /\ SomeEligible =>
            \A pt \in ProbePoints : FiresNearest(pt))
    /\ [][Tap => SameAliveFlags /\ UNCHANGED <<score, wave, gameState>>]_vars

\* the middle tower is empty and the tap above it was fired from the left tower
C11_Witness ==
    /\ last = "tap"
    /\ gameState = "PLAYING"
    /\ towers[1].alive /\ towers[1].ammo = 0
    /\ \E k \in 1..Len(interceptors) :
          /\ interceptors[k].originTowerIndex = 0
          /\ interceptors[k].target.x = TowerPosition(1).x

\* C12: a tap while the state is not Playing, or while no tower is alive with
\* ammo, launches nothing and changes nothing.
C12_TapIgnored ==
    /\ [](gameState # "PLAYING" \/ ~SomeEligible =>
            /\ \A pt \in ProbePoints :
                  Fired(pt) = [towers |-> towers, interceptors |-> interceptors]
            /\ \A pts \in TouchBatches : Launched(pts) = 0 /\ Touched(pts).towers = towers)
    /\ [][Tap /\ (gameState # "PLAYING" \/ ~SomeEligible) =>
            UNCHANGED <<gameState, score, wave, towers, cities, enemies, interceptors,
                        explosions, particles, floatingTexts, isWaveClearing,
                        isEndlessMode, timers>>]_vars

\* a tap was made during play with every tower out of ammo: nothing is in flight
C12_Witness ==
    /\ last = "tap"
    /\ gameState = "PLAYING"
    /\ ~SomeEligible
    /\ interceptors = <<>>
    /\ enemies # <<>>

\* the world of a frame when enemiesRef.current.forEach begins (line 573)
BeforeEnemies(dt, targetRoll, startRoll) ==
    UpdateExplosions(UpdateInterceptors(CheckWaveClear(
        SpawnEnemies([World EXCEPT !.sinceSpawn = Elapsed(dt)], wave, targetRoll, startRoll),
        wave, isEndlessMode)))

\* the k-th projectile of w after its move of lines 574-575
Moved(w, k) == [w.enemies[k] EXCEPT !.x = @ + w.enemies[k].vx, !.y = @ + w.enemies[k].vy]

\* after its move the k-th projectile of w is inside the blast b
Inside(w, k, b) ==
    DistSq(Moved(w, k), b) < b.radius * b.radius

\* ... inside some blast of w
Hit(w, k) == \E j \in 1..Len(w.explosions) : Inside(w, k, w.explosions[j])

\* ... not inside a blast and at ground level
Landed(w, k) == ~Hit(w, k) /\ Moved(w, k).y >= GroundY - Px(ImpactMargin)

\* the projectile step turns w0 into w1: each projectile inside a blast is dead and
\* has left a blast of its own at its position, and each one adds 20 to the score
KillsResolved(w0, w1) ==
    LET hits == {k \in 1..Len(w0.enemies) : Hit(w0, k)}
        gone == {k \in 1..Len(w0.enemies) : Hit(w0, k) \/ Landed(w0, k)}
    IN  /\ Len(w1.enemies) = Len(w0.enemies)
        /\ \A k \in 1..Len(w0.enemies) : w1.enemies[k].dead <=> k \in gone
        /\ w1.score = w0.score + (KillScore * Cardinality(hits))
        /\ Len(w1.explosions) = Len(w0.explosions) + Cardinality(gone)
        /\ SubSeq(w1.explosions, 1, Len(w0.explosions)) = w0.explosions
        /\ \A k \in hits :
              \E j \in (Len(w0.explosions) + 1)..Len(w1.explosions) :
                  /\ w1.explosions[j].x = Moved(w0, k).x
                  /\ w1.explosions[j].y = Moved(w0, k).y
                  /\ w1.explosions[j].radius = 0
                  /\ w1.explosions[j].color = "secondary"

FrameKillsResolved(dt, targetRoll, startRoll) ==
    LET w0 == BeforeEnemies(dt, targetRoll, startRoll)
    IN  KillsResolved(w0, UpdateEnemies(w0))

\* C13: in the projectile step of a frame every projectile inside the radius of
\* a blast, the blast of an earlier kill included, is destroyed, adds exactly 20
\* to the score and leaves a secondary blast at its position.
C13_ChainKill ==
    gameState = "PLAYING" =>
        \A dt \in TickDeltas, targetRoll \in TargetRolls, startRoll \in StartRolls :
            FrameKillsResolved(dt, targetRoll, startRoll)

\* after a first kill, with nothing in flight from the towers, the coming frame
\* destroys a projectile that is inside a secondary blast and inside no other
C13_Witness ==
    /\ gameState = "PLAYING"
    /\ last = "tick"
    /\ score >= KillScore
    /\ interceptors = <<>>
    /\ LET w0 == BeforeEnemies(0, 0, 0)
       IN  \E k \in 1..Len(w0.enemies) :
               /\ Hit(w0, k)
               /\ \A j \in 1..Len(w0.explosions) :
                     Inside(w0, k, w0.explosions[j])
                         => w0.explosions[j].color = "secondary"

\* after its next move the interceptor p is nearer to its target than its speed
Arrives(p) ==
    LET dx == p.target.x - (p.x + p.vx)
        dy == p.target.y - (p.y + p.vy)
    IN  (dx * dx) + (dy * dy) < p.speed * p.speed

\* the blasts of interceptors that this frame has spawned and grown once
FreshPrimary(b) == b.color = "primary" /\ b.radius = b.growthRate /\ b.life = 1000

\* the frame removes the interceptors that arrive, each leaving one blast at its
\* target, and moves the others, which keep their target and leave no blast
InterceptorsResolved ==
    LET arrived == SelectSeq(interceptors, Arrives)
        flying == SelectSeq(interceptors, LAMBDA p : ~Arrives(p))
        fresh == SelectSeq(explosions', FreshPrimary)
    IN  /\ Len(interceptors') = Len(flying)
        /\ \A k \in 1..Len(flying) :
              interceptors'[k] = [flying[k] EXCEPT !.x = @ + flying[k].vx,
                                                   !.y = @ + flying[k].vy]
        /\ Len(fresh) = Len(arrived)
        /\ \A k \in 1..Len(arrived) :
              fresh[k].x = arrived[k].target.x /\ fresh[k].y = arrived[k].target.y

\* C14: an interceptor flies with its target unchanged; the first frame that
\* brings it nearer to the target than its speed removes it and spawns exactly
\* one blast, at the target; the frames before spawn no blast for it.
C14_InterceptorArrival ==
    [][(Tick /\ gameState = "PLAYING") => InterceptorsResolved]_vars

\* an interceptor has flown more than one frame and its blast has just appeared,
\* two frames of flight or more from every tower
C14_Witness ==
    /\ last = "tick"
    /\ interceptors = <<>>
    /\ \E j \in 1..Len(explosions) :
          /\ FreshPrimary(explosions[j])
          /\ \A t \in 0..(NumTowers - 1) :
                ~DistanceLess(TowerPosition(t), explosions[j], 2 * Px(InterceptorSpeed))

\* a projectile has been spawned by the last frame: it has moved once
JustSpawned(e) == e.y = e.vy - Px(EnemyStartY)

\* wave clearing has begun since the last initGame() or nextWave(): the flag is
\* set, or it was set and the bonus has been paid
ClearingBegun == isWaveClearing \/ settled > 0

\* C15: once wave clearing has begun, and until the next nextWave() or
\* initGame(), no frame spawns a projectile, the frames of the grace delay
\* included.
C15_NoSpawnWhileClearing ==
    [][(Tick /\ ClearingBegun)
          => \A k \in 1..Len(enemies') : ~JustSpawned(enemies'[k])]_vars

\* the frame has paid the bonus and scheduled the deferred transition
BonusAwarded == Len(timers') > Len(timers) \/ settled' > settled

\* C16: a frame pays the end-of-wave bonus and schedules the deferred transition
\* only if, when it evaluates the wave-complete condition, the score is at
\* least wave x 200 and no projectile and no blast is live; it then does both.
C16_BonusOnlyWhenClear ==
    [][(Tick /\ BonusAwarded)
          => /\ gameState = "PLAYING"
             /\ score >= wave * WaveTargetStep
             /\ enemies = <<>> /\ enemies' = <<>>
             /\ explosions = <<>>
             /\ score' = score + WaveBonus(towers)
             /\ Len(timers') = Len(timers) + 1
             /\ settled' = settled + 1]_vars

\* the bonus has just been paid: its popup is one frame old and the deferred
\* transition is pending
C16_Witness ==
    /\ last = "tick"
    /\ gameState = "PLAYING"
    /\ timers # <<>>
    /\ settled = 1
    /\ \E k \in 1..Len(floatingTexts) :
          /\ floatingTexts[k].text = score - (wave * WaveTargetStep)
          /\ floatingTexts[k].text > KillScore
          /\ floatingTexts[k].life = 985

\* C17: while the game state is not Playing a frame leaves the five entity
\* lists, the score, the wave, the towers, the cities and the wave-clearing
\* flag as they are.
C17_FrozenWhenNotPlaying ==
    [][(Tick /\ gameState # "PLAYING")
          => UNCHANGED <<enemies, interceptors, explosions, particles, floatingTexts,
                         score, wave, towers, cities, isWaveClearing, gameState,
                         timers>>]_vars

\* a frame has run since the deferred transition ended the wave, with a
\* projectile still in the air
C17_Witness ==
    /\ gameState = "WAVE_COMPLETE"
    /\ last = "tick"
    /\ enemies # <<>>

\* C18: the start and restart buttons leave score 0, wave 1, every tower alive
\* with full ammo, the six cities alive, the five entity lists empty, both
\* flags false and the state Playing, whatever the state before.
C18_ResetBaseline ==
    [][(StartGame \/ Restart)
          => /\ score' = 0
             /\ wave' = 1
             /\ \A t \in 0..(NumTowers - 1) :
                   towers'[t].alive /\ towers'[t].ammo = towers'[t].maxAmmo
                       /\ towers'[t].maxAmmo = InitialTowers[t].maxAmmo
             /\ \A c \in 0..(NumCities - 1) : cities'[c].alive
             /\ enemies' = <<>> /\ interceptors' = <<>> /\ explosions' = <<>>
             /\ particles' = <<>> /\ floatingTexts' = <<>>
             /\ ~isWaveClearing' /\ ~isEndlessMode'
             /\ gameState' = "PLAYING"]_vars

\* the restart button has just been pressed after a game that left a deferred
\* transition pending
C18_Witness ==
    /\ last = "restart"
    /\ timers # <<>>
    /\ score = 0
    /\ gameState = "PLAYING"

\* what a run can observe of the world w
Observed(w) ==
    <<w.score, w.gameState, w.towers, w.cities, w.enemies, w.interceptors,
      w.explosions, w.particles, w.floatingTexts>>

\* the frame dt after initGame() in the run that pressed start as soon as the
\* page was loaded: spawnTimerRef.current is 0 and so is the time
FrameAfterLoad(dt, targetRoll, startRoll) ==
    Simulate([World EXCEPT !.sinceSpawn = Min(dt, SpawnCap)], wave, isEndlessMode,
             targetRoll, startRoll)

\* C19: two runs that start from the state initGame() leaves and get the same
\* random draws, actions and frame times agree on score, game state, structures
\* and entity lists: the first frame after any initGame() gives what it gives in
\* the run that was started right after the page was loaded.
C19_Deterministic ==
    (gameState = "PLAYING" /\ last \in {"start", "restart"}) =>
        \A dt \in TickDeltas, targetRoll \in TargetRolls, startRoll \in StartRolls :
            Observed(Frame(dt, targetRoll, startRoll))
                = Observed(FrameAfterLoad(dt, targetRoll, startRoll))

\* the world after the first n projectiles of w have had their turn
RECURSIVE UpdateEnemiesUpTo(_, _)
UpdateEnemiesUpTo(w, n) ==
    IF n = 0 THEN w ELSE UpdateEnemy(UpdateEnemiesUpTo(w, n - 1), n)

StructureAlive(w, i) ==
    IF i < NumCities THEN w.cities[i].alive ELSE w.towers[i - NumCities].alive

\* the turn of the k-th projectile of w, which lands: it is dead, an impact blast
\* is at its position, the score is as before, and of the structures only the
\* one at targetIndex changes, and only if it was alive
ImpactResolved(w, k) ==
    LET v == UpdateEnemy(w, k)
        e == Moved(w, k)
        i == e.targetIndex
        blast == v.explosions[Len(v.explosions)]
    IN  /\ v.enemies[k].dead
        /\ Len(v.explosions) = Len(w.explosions) + 1
        /\ SubSeq(v.explosions, 1, Len(w.explosions)) = w.explosions
        /\ blast.x = e.x /\ blast.y = e.y /\ blast.radius = 0
        /\ blast.color = "warning"
        /\ v.score = w.score
        /\ \A c \in 0..(NumCities - 1) :
              v.cities[c].alive = (w.cities[c].alive /\ c # i)
        /\ \A t \in 0..(NumTowers - 1) :
              v.towers[t] = IF t + NumCities = i /\ w.towers[t].alive
                            THEN [w.towers[t] EXCEPT !.alive = FALSE, !.ammo = 0]
                            ELSE w.towers[t]
        /\ ~StructureAlive(w, i) \/ i >= NumCities => v.gameState = w.gameState

FrameImpactsResolved(dt, targetRoll, startRoll) ==
    LET w0 == BeforeEnemies(dt, targetRoll, startRoll)
    IN  \A k \in 1..Len(w0.enemies) :
            LET w == UpdateEnemiesUpTo(w0, k - 1)
            IN  Landed(w, k) => ImpactResolved(w, k)

\* C20: a projectile that reaches ground level outside every blast is marked
\* dead and leaves an impact blast at its position; a city or tower alive at
\* its targetIndex becomes dead, the tower with ammo 0; if that structure is
\* dead already nothing else changes; no other structure is affected.
C20_GroundImpact ==
    gameState = "PLAYING" =>
        \A dt \in TickDeltas, targetRoll \in TargetRolls, startRoll \in StartRolls :
            FrameImpactsResolved(dt, targetRoll, startRoll)

DeadStructures ==
    Cardinality({c \in 0..(NumCities - 1) : ~cities[c].alive})
        + Cardinality({t \in 0..(NumTowers - 1) : ~towers[t].alive})

\* nothing was shot down, two projectiles have landed in the last frame, and
\* one structure only is dead: the second one fell on a structure already dead
C20_Witness ==
    /\ last = "tick"
    /\ score = 0
    /\ wave = 1
    /\ DeadStructures = 1
    /\ Cardinality({j \in 1..Len(explosions) :
                       explosions[j].color = "warning" /\ explosions[j].radius = 0}) = 2

\* the turn of the k-th projectile of w, which is inside a blast: it is dead, the
\* score is 20 higher, one secondary blast is at its position, and no city, no
\* tower and not the game state has changed
BlastKillResolved(w, k) ==
    LET v == UpdateEnemy(w, k)
        e == Moved(w, k)
        blast == v.explosions[Len(v.explosions)]
    IN  /\ v.enemies[k].dead
        /\ v.score = w.score + KillScore
        /\ Len(v.explosions) = Len(w.explosions) + 1
        /\ SubSeq(v.explosions, 1, Len(w.explosions)) = w.explosions
        /\ blast.x = e.x /\ blast.y = e.y /\ blast.radius = 0
        /\ blast.color = "secondary"
        /\ v.cities = w.cities
        /\ v.towers = w.towers
        /\ v.gameState = w.gameState

FrameBlastKillsResolved(dt, targetRoll, startRoll) ==
    LET w0 == BeforeEnemies(dt, targetRoll, startRoll)
    IN  \A k \in 1..Len(w0.enemies) :
            LET w == UpdateEnemiesUpTo(w0, k - 1)
            IN  Hit(w, k) => BlastKillResolved(w, k)

\* C21: a projectile that is inside one blast or several in a frame is destroyed
\* once: the score rises by exactly 20 and exactly one secondary blast is
\* spawned; if it has also reached ground level the kill takes precedence: no
\* structure is damaged, no impact blast is spawned, the game is not over by it.
C21_BlastKillOnce ==
    gameState = "PLAYING" =>
        \A dt \in TickDeltas, targetRoll \in TargetRolls, startRoll \in StartRolls :
            FrameBlastKillsResolved(dt, targetRoll, startRoll)

\* in the coming frame a projectile reaches ground level inside two blasts
C21_Witness ==
    /\ gameState = "PLAYING"
    /\ last = "tick"
    /\ LET w0 == BeforeEnemies(0, 0, 0)
       IN  \E k \in 1..Len(w0.enemies) :
               /\ Moved(w0, k).y >= GroundY - Px(ImpactMargin)
               /\ Cardinality({j \in 1..Len(w0.explosions) :
                                  Inside(w0, k, w0.explosions[j])}) >= 2

\* w after every city and every tower has been destroyed
Ruined(w) ==
    [w EXCEPT !.cities = [c \in DOMAIN @ |-> [@[c] EXCEPT !.alive = FALSE]],
              !.towers = [t \in DOMAIN @ |-> [@[t] EXCEPT !.alive = FALSE, !.ammo = 0]]]

\* the spawn block on w pushes at most one projectile; its targetIndex is in
\* 0..8 and the structure there is alive in w; with nothing alive in w nothing
\* is pushed
SpawnAimsAtAlive(w, wv) ==
    \A targetRoll \in 0..9, startRoll \in StartRolls :
        LET v == SpawnEnemies(w, wv, targetRoll, startRoll)
            n == Len(w.enemies)
        IN  /\ Len(v.enemies) \in {n, n + 1}
            /\ SubSeq(v.enemies, 1, n) = w.enemies
            /\ Len(v.enemies) = n + 1 =>
                  /\ v.enemies[n + 1].targetIndex \in 0..(NumCities + NumTowers - 1)
                  /\ StructureAlive(w, v.enemies[n + 1].targetIndex)
            /\ (\A i \in 0..(NumCities + NumTowers - 1) : ~StructureAlive(w, i))
                  => v.enemies = w.enemies

\* C22: every projectile is created with a targetIndex in 0..8 that denotes a
\* structure alive in the frame that spawns it, and a frame in which no city
\* and no tower is alive spawns no projectile.
C22_TargetAlive ==
    /\ \A k \in 1..Len(enemies) :
          enemies[k].targetIndex \in 0..(NumCities + NumTowers - 1)
    /\ gameState = "PLAYING" =>
          \A dt \in TickDeltas :
              LET w == [World EXCEPT !.sinceSpawn = Elapsed(dt)]
              IN  SpawnAimsAtAlive(w, wave) /\ SpawnAimsAtAlive(Ruined(w), wave)

\* a projectile has just been spawned after a structure was lost, and it is
\* aimed at a structure that stands
C22_Witness ==
    /\ gameState = "PLAYING"
    /\ last = "tick"
    /\ DeadStructures >= 1
    /\ \E k \in 1..Len(enemies) :
          JustSpawned(enemies[k]) /\ StructureAlive(World, enemies[k].targetIndex)

\* no list of w holds a tombstoned entity
NoTombstones(w) ==
    /\ \A k \in 1..Len(w.interceptors) : ~w.interceptors[k].dead
    /\ \A k \in 1..Len(w.enemies) : ~w.enemies[k].dead
    /\ \A k \in 1..Len(w.particles) : ~w.particles[k].dead
    /\ \A k \in 1..Len(w.explosions) : w.explosions[k].life > 0
    /\ \A k \in 1..Len(w.floatingTexts) : w.floatingTexts[k].life > 0

\* the world of a frame when the cull begins (line 631)
BeforeCleanup(dt, targetRoll, startRoll) ==
    UpdateCosmetics(UpdateEnemies(BeforeEnemies(dt, targetRoll, startRoll)))

\* up to the cull the frame removes nothing: the interceptors and projectiles
\* the frame began with are all in their lists, dead or not, no blast, particle
\* or popup has left its list, and the frame ends with what the cull leaves
CulledOnlyAtEnd(dt, targetRoll, startRoll) ==
    LET w0 == BeforeEnemies(dt, targetRoll, startRoll)
        w1 == BeforeCleanup(dt, targetRoll, startRoll)
        end == Frame(dt, targetRoll, startRoll)
    IN  /\ Len(w0.interceptors) = Len(interceptors)
        /\ Len(w1.interceptors) = Len(interceptors)
        /\ Len(w0.enemies) >= Len(enemies)
        /\ Len(w1.enemies) = Len(w0.enemies)
        /\ Len(w1.explosions) >= Len(w0.explosions)
        /\ Len(w0.explosions) >= Len(explosions)
        /\ Len(w1.particles) >= Len(particles)
        /\ Len(w1.floatingTexts) >= Len(floatingTexts)
        /\ end.interceptors = SelectSeq(w1.interceptors, LAMBDA p : ~p.dead)
        /\ end.enemies = SelectSeq(w1.enemies, LAMBDA e : ~e.dead)
        /\ end.particles = SelectSeq(w1.particles, LAMBDA p : ~p.dead)
        /\ end.explosions = SelectSeq(w1.explosions, LAMBDA e : e.life > 0)
        /\ end.floatingTexts = SelectSeq(w1.floatingTexts, LAMBDA t : t.life > 0)
        /\ NoTombstones(end)

\* C23: at the end of every frame no list holds a tombstoned entity: no dead
\* interceptor, projectile or particle, no blast or popup with life <= 0; what
\* a frame marks dead is removed by the one cull at the end of that frame, after
\* all the collision and ground checks, and by nothing before it.
C23_CulledAtFrameEnd ==
    /\ NoTombstones(World)
    /\ gameState = "PLAYING" =>
          \A dt \in TickDeltas, targetRoll \in TargetRolls, startRoll \in StartRolls :
              CulledOnlyAtEnd(dt, targetRoll, startRoll)

\* the coming frame marks a projectile dead and fades a blast out, and both are
\* in their lists when the cull begins
C23_Witness ==
    /\ gameState = "PLAYING"
    /\ last = "tick"
    /\ LET w1 == BeforeCleanup(0, 0, 0)
       IN  /\ \E k \in 1..Len(w1.enemies) : w1.enemies[k].dead
           /\ \E k \in 1..Len(w1.explosions) : w1.explosions[k].life <= 0

\* the frames a blast has left: those of its growth, then those of its decay
FramesLeft(b) ==
    ((b.maxRadius - b.radius) \div b.growthRate) + (b.life \div 50)

\* the radius is within 0..maxRadius and the life is full until it gets there
BlastInRange(b) ==
    /\ 0 <= b.radius /\ b.radius <= b.maxRadius
    /\ 0 < b.life /\ b.life <= 1000
    /\ b.radius < b.maxRadius => b.life = 1000
    /\ FramesLeft(b) \in 1..((ExplosionMaxRadius \div ExplosionGrowthRate) + 20)

\* one frame of the blast b: the life does not rise, and it falls only if the
\* radius had reached maxRadius; the frames left are one fewer, and there are
\* none left exactly if the life is used up
BlastStep(b) ==
    LET g == GrowExplosion(b)
    IN  /\ g.life <= b.life
        /\ g.life < b.life => b.radius >= b.maxRadius
        /\ g.radius >= b.radius /\ g.radius <= g.maxRadius
        /\ FramesLeft(g) = FramesLeft(b) - 1
        /\ g.life <= 0 <=> FramesLeft(g) = 0

\* the frame puts every blast through one BlastStep and ends without the blasts
\* whose life is used up
BlastsAged(dt, targetRoll, startRoll) ==
    LET w0 == BeforeEnemies(dt, targetRoll, startRoll)
        end == Frame(dt, targetRoll, startRoll)
        n == Len(explosions)
    IN  /\ Len(w0.explosions) >= n
        /\ \A k \in 1..n : w0.explosions[k] = GrowExplosion(explosions[k])
        /\ SelectSeq(SubSeq(w0.explosions, 1, n), LAMBDA b : b.life > 0)
              = SubSeq(end.explosions, 1,
                       Cardinality({k \in 1..n : w0.explosions[k].life > 0}))

\* C24: for every blast 0 <= radius <= maxRadius; the life is 1.0 while the
\* radius is below maxRadius and falls only in frames in which the radius has
\* reached maxRadius; the life never rises; the blast is removed at the end of
\* the first frame in which its life is <= 0, so after a bounded number of
\* frames in PLAYING (at most 15 of growth and 20 of decay).
C24_BlastLifeCycle ==
    /\ \A k \in 1..Len(explosions) :
          BlastInRange(explosions[k]) /\ BlastStep(explosions[k])
    /\ gameState = "PLAYING" =>
          \A dt \in TickDeltas, targetRoll \in TargetRolls, startRoll \in StartRolls :
              BlastsAged(dt, targetRoll, startRoll)

\* a blast at full radius is in its last frame
C24_Witness ==
    /\ gameState = "PLAYING"
    /\ last = "tick"
    /\ \E k \in 1..Len(explosions) :
          /\ explosions[k].radius = explosions[k].maxRadius
          /\ FramesLeft(explosions[k]) = 1

\* C25: right after every nextWave() the list of projectiles is empty: no
\* projectile spawned in an earlier wave is alive in the new wave or can damage
\* a structure in it.
C25_NoCarryOver ==
    last \in {"nextWave", "endless"} => enemies = <<>>

\* the waves the pacing is looked at for
ProbeWaves == 0..15

\* the interval is max(500, 2000 - 150 w) ms, never grows and never falls below
\* 500 ms; the speed is 1 + 0.2 w px per frame and grows with every wave
PacingByWave ==
    \A w \in ProbeWaves :
        /\ SpawnRate(w) = (IF 2000 - (150 * w) > 500 THEN 2000 - (150 * w) ELSE 500)
        /\ SpawnRate(w) >= 500
        /\ SpawnRate(w + 1) <= SpawnRate(w)
        /\ SpeedBase(w) = Px(1) + (20 * w)
        /\ SpeedBase(w + 1) > SpeedBase(w)

\* the spawn block on w in wave wv pushes at most one projectile, and one only
\* if the wave is not clearing and more than the interval has passed since the
\* last spawn; the projectile has the speed of the wave, its velocity is of that
\* length to the hundredth of a pixel, and the clock restarts
SpawnPaced(w, wv) ==
    \A targetRoll \in TargetRolls, startRoll \in StartRolls :
        LET v == SpawnEnemies(w, wv, targetRoll, startRoll)
            n == Len(w.enemies)
        IN  /\ Len(v.enemies) \in {n, n + 1}
            /\ Len(v.enemies) = n + 1 =>
                  /\ ~w.isWaveClearing
                  /\ w.sinceSpawn > SpawnRate(wv)
                  /\ v.sinceSpawn = 0
                  /\ v.enemies[n + 1].speed = SpeedBase(wv)
                  /\ LET e == v.enemies[n + 1]
                         sq == (e.vx * e.vx) + (e.vy * e.vy)
                     IN  /\ sq < (e.speed + 1) * (e.speed + 1)
                         /\ sq > (e.speed - 2) * (e.speed - 2)

\* the projectiles of a frame are those the spawn block leaves
SpawnOnlyInBlock(dt, targetRoll, startRoll) ==
    LET w == [World EXCEPT !.sinceSpawn = Elapsed(dt)]
    IN  /\ BeforeEnemies(dt, targetRoll, startRoll).enemies
              = SpawnEnemies(w, wave, targetRoll, startRoll).enemies
        /\ Len(Frame(dt, targetRoll, startRoll).enemies) <= Len(enemies) + 1

\* C26: the spawn interval of wave w is max(500, 2000 - 150 w) ms, does not
\* grow with the wave and is never below 500 ms; new projectiles fly at
\* 1 + 0.2 w px per frame, faster in every wave; a frame in PLAYING spawns a
\* projectile only if the wave is not clearing and more than the interval has
\* passed since the last spawn, and it spawns at most one.
C26_SpawnPacing ==
    /\ PacingByWave
    /\ gameState = "PLAYING" =>
          \A dt \in TickDeltas :
              /\ \A wv \in ProbeWaves :
                    SpawnPaced([World EXCEPT !.sinceSpawn = Elapsed(dt)], wv)
              /\ \A targetRoll \in TargetRolls, startRoll \in StartRolls :
                    SpawnOnlyInBlock(dt, targetRoll, startRoll)

\* a projectile of wave 2 has just been spawned
C26_Witness ==
    /\ gameState = "PLAYING"
    /\ last = "tick"
    /\ wave = 2
    /\ sinceSpawn = 0
    /\ \E k \in 1..Len(enemies) :
          JustSpawned(enemies[k]) /\ enemies[k].speed = SpeedBase(2)

\* C27: at most one deferred transition is pending at any time: once update()
\* has scheduled one, it schedules no other before that one has run and a new
\* wave or a new game has begun.
C27_OneDeferredPending ==
    Len(timers) <= 1

\* C28: whenever a frame begins in PLAYING at least one city is alive.
C28_PlayingHasCity ==
    gameState = "PLAYING" => ~AllCitiesDead(cities)

\* C29: if the score reaches wave * 200 in PLAYING and from then on frames and
\* timer callbacks keep coming, with no pause and no reset, the state becomes
\* WAVE_COMPLETE, VICTORY or GAME_OVER: the projectiles and blasts that remain
\* and the interceptors the player still fires do not put it off for ever.
C29_EventuallySettled ==
    (gameState = "PLAYING" /\ score >= wave * WaveTargetStep)
        ~> (gameState \in {"WAVE_COMPLETE", "VICTORY", "GAME_OVER"})

\* the target score is met, the wave is clearing, and the player has just fired
\* another interceptor
C29_Witness ==
    /\ gameState = "PLAYING"
    /\ score >= wave * WaveTargetStep
    /\ isWaveClearing
    /\ last = "tap"
    /\ interceptors # <<>>

\* lines 554-563 for the interceptor p, frame after frame: p after n frames, or
\* as the frame of its arrival leaves it
RECURSIVE AfterFrames(_, _)
AfterFrames(p, n) ==
    IF n = 0 \/ p.dead THEN p ELSE AfterFrames(MoveInterceptor(p), n - 1)

\* more frames than an interceptor needs from any tower to any point of the canvas
MaxFlight == ((CanvasWidth + CanvasHeight) \div InterceptorSpeed) + 1

\* the interceptor a tap at pt launches is marked dead within MaxFlight frames
ArrivesFrom(pt) ==
    LET f == Fired(pt)
    IN  Len(f.interceptors) > Len(interceptors)
            => AfterFrames(f.interceptors[Len(f.interceptors)], MaxFlight).dead

\* C30: every interceptor that is launched, wherever the tap is (on the position
\* of the launching tower, or at a distance from it that is a multiple of the
\* interceptor speed), is marked dead and spawns its blast after finitely many
\* frames in PLAYING.
C30_InterceptorArrives ==
    gameState = "PLAYING" => \A pt \in ProbePoints : ArrivesFrom(pt)

\* C31: right after every nextWave() to wave n the score is below n * 200, so
\* that no wave is settled without a kill in it.
C31_ScoreBelowTarget ==
    last \in {"nextWave", "endless"} => score < wave * WaveTargetStep

====
